---- MODULE Spec2Model ----
(***************************************************************************)
(* StockCLI (src/stockCLI.py): the field catalog, the formatter, the data  *)
(* fetcher, the presenter and the CLI driver.  One invocation of the       *)
(* program is one behaviour of Spec; SpecFetch and SpecDisplay apply the   *)
(* fetcher and the presenter on their own to a wider range of inputs.      *)
(***************************************************************************)
EXTENDS Integers, Sequences, FiniteSets, TLC

VARIABLES
  pc,          \* where the invocation stands
  plotext,     \* PLOTEXT_AVAILABLE, set when the module is imported
  response,    \* what the data provider answered, once it was asked
  args,        \* parsed_args
  colors,      \* self.colors
  data,        \* the record get_stock_data returned
  stdout,      \* the lines printed to stdout
  stderr,      \* the lines printed to stderr
  calls,       \* the functions and provider calls made, in order
  exitStatus,  \* the exit status of the process, "running" until it ends
  raised       \* the exception that left run uncaught, or "none"

vars ==
  <<pc, plotext, response, args, colors, data, stdout, stderr, calls,
    exitStatus, raised>>

(***************************************************************************)
(* Bounds of the model.                                                    *)
(***************************************************************************)
\* longest historical window the provider returns
MaxHist == 2
\* closing prices range over 0..MaxPrice
MaxPrice == 2
\* longest list of keys given with --fields
MaxFields == 2

(***************************************************************************)
(* Values.  Python's None, numbers and strings.  A number is an exact      *)
(* rational n/d in lowest terms (d > 0); Python computes in floating point.*)
(***************************************************************************)
None == [t |-> "none"]

Str(s) == [t |-> "str", s |-> s]

Abs(x) == IF x < 0 THEN -x ELSE x

RECURSIVE GCD(_, _)
GCD(a, b) == IF b = 0 THEN a ELSE GCD(b, a % b)

Rat(n, d) ==
  LET g == GCD(Abs(n), d)
  IN  [t |-> "num", n |-> n \div g, d |-> d \div g]

Num(k) == [t |-> "num", n |-> k, d |-> 1]

IsNone(v) == v.t = "none"

\* isinstance(value, (int, float))
IsNumber(v) == v.t = "num"

Sub(a, b) == Rat(a.n * b.d - b.n * a.d, a.d * b.d)

\* a / b for b # 0
TrueDiv(a, b) ==
  IF b.n > 0 THEN Rat(a.n * b.d, a.d * b.n)
             ELSE Rat(-(a.n * b.d), a.d * (-b.n))

MulInt(a, k) == Rat(a.n * k, a.d)

\* a >= k for an integer k
GeInt(a, k) == (a.n \div a.d) >= k

\* a >= 0
NonNegative(a) == a.n >= 0

(***************************************************************************)
(* Dictionaries are functions from keys to values.                         *)
(***************************************************************************)
EmptyDict == [k \in {} |-> None]

\* d[k] = v
Put(d, k, v) == [x \in (DOMAIN d) \cup {k} |-> IF x = k THEN v ELSE d[x]]

\* d.get(k, default)
Get(d, k, default) == IF k \in DOMAIN d THEN d[k] ELSE default

\* del d[k]
Del(d, k) == [x \in (DOMAIN d) \ {k} |-> d[x]]

Range(s) == {s[i] : i \in 1..Len(s)}

(***************************************************************************)
(* Class constants.                                                        *)
(***************************************************************************)
BILLION == 1000000000
MILLION == 1000000
THOUSAND == 1000

\* value >= TRILLION (1e12 is MILLION * MILLION)
GeTrillion(a) == ((a.n \div a.d) \div MILLION) >= MILLION

(***************************************************************************)
(* __init__: the colour table and the field catalog.                       *)
(***************************************************************************)
InitColors ==
  [green |-> "ESC[92m", red |-> "ESC[91m", yellow |-> "ESC[93m",
   blue |-> "ESC[94m", bold |-> "ESC[1m", reset |-> "ESC[0m"]

field_categories ==
  <<
    [name |-> "Basic Info", fields |-> <<
        <<"longName", "Company Name">>,
        <<"shortName", "Short Name">>,
        <<"symbol", "Symbol">>,
        <<"exchange", "Exchange">>,
        <<"quoteType", "Quote Type">>,
        <<"market", "Market">>,
        <<"marketState", "Market State">>,
        <<"currency", "Currency">>,
        <<"timeZoneFullName", "Time Zone">> >>],
    [name |-> "Price & Volume", fields |-> <<
        <<"currentPrice", "Current Price">>,
        <<"previousClose", "Previous Close">>,
        <<"open", "Open">>,
        <<"dayLow", "Day Low">>,
        <<"dayHigh", "Day High">>,
        <<"volume", "Volume">>,
        <<"averageVolume", "Avg Volume">>,
        <<"averageVolume10days", "Avg Volume (10d)">>,
        <<"bid", "Bid">>,
        <<"ask", "Ask">>,
        <<"bidSize", "Bid Size">>,
        <<"askSize", "Ask Size">> >>],
    [name |-> "Market Metrics", fields |-> <<
        <<"marketCap", "Market Cap">>,
        <<"enterpriseValue", "Enterprise Value">>,
        <<"floatShares", "Float Shares">>,
        <<"sharesOutstanding", "Shares Outstanding">>,
        <<"sharesShort", "Shares Short">>,
        <<"sharesShortPreviousMonthDate", "Short Month Date">>,
        <<"sharesShortPriorMonth", "Short Prior Month">>,
        <<"shortRatio", "Short Ratio">>,
        <<"shortPercentOfFloat", "Short % of Float">> >>],
    [name |-> "Valuation Ratios", fields |-> <<
        <<"trailingPE", "P/E Ratio (TTM)">>,
        <<"forwardPE", "Forward P/E">>,
        <<"pegRatio", "PEG Ratio">>,
        <<"priceToBook", "Price/Book">>,
        <<"enterpriseToRevenue", "Enterprise/Revenue">>,
        <<"enterpriseToEbitda", "Enterprise/EBITDA">>,
        <<"bookValue", "Book Value">>,
        <<"priceToSalesTrailing12Months", "Price/Sales">> >>],
    [name |-> "Financial Metrics", fields |-> <<
        <<"revenue", "Revenue">>,
        <<"revenuePerShare", "Revenue/Share">>,
        <<"revenueGrowth", "Revenue Growth">>,
        <<"grossProfits", "Gross Profits">>,
        <<"freeCashflow", "Free Cash Flow">>,
        <<"operatingCashflow", "Operating Cash Flow">>,
        <<"earningsGrowth", "Earnings Growth">>,
        <<"earningsQuarterlyGrowth", "Quarterly Earnings Growth">>,
        <<"returnOnAssets", "ROA">>,
        <<"returnOnEquity", "ROE">>,
        <<"returnOnCapital", "ROIC">>,
        <<"profitMargins", "Profit Margin">>,
        <<"operatingMargins", "Operating Margin">>,
        <<"ebitdaMargins", "EBITDA Margin">>,
        <<"grossMargins", "Gross Margin">> >>],
    [name |-> "Dividend Info", fields |-> <<
        <<"dividendRate", "Dividend Rate">>,
        <<"dividendYield", "Dividend Yield">>,
        <<"payoutRatio", "Payout Ratio">>,
        <<"fiveYearAvgDividendYield", "5Y Avg Dividend Yield">>,
        <<"exDividendDate", "Ex-Dividend Date">>,
        <<"lastDividendDate", "Last Dividend Date">>,
        <<"lastDividendValue", "Last Dividend Value">> >>],
    [name |-> "Analyst Info", fields |-> <<
        <<"targetMeanPrice", "Target Mean Price">>,
        <<"targetMedianPrice", "Target Median Price">>,
        <<"targetHighPrice", "Target High Price">>,
        <<"targetLowPrice", "Target Low Price">>,
        <<"numberOfAnalystOpinions", "Analyst Opinions">>,
        <<"recommendationMean", "Recommendation">>,
        <<"recommendationKey", "Recommendation Key">> >>],
    [name |-> "Technical Indicators", fields |-> <<
        <<"fiftyDayAverage", "50-Day Average">>,
        <<"twoHundredDayAverage", "200-Day Average">>,
        <<"fiftyTwoWeekLow", "52-Week Low">>,
        <<"fiftyTwoWeekHigh", "52-Week High">>,
        <<"fiftyTwoWeekChange", "52-Week Change">>,
        <<"fiftyTwoWeekChangePercent", "52-Week Change %">> >>],
    [name |-> "Company Info", fields |-> <<
        <<"industry", "Industry">>,
        <<"sector", "Sector">>,
        <<"country", "Country">>,
        <<"state", "State">>,
        <<"city", "City">>,
        <<"zip", "ZIP">>,
        <<"phone", "Phone">>,
        <<"website", "Website">>,
        <<"businessSummary", "Business Summary">>,
        <<"fullTimeEmployees", "Full-Time Employees">> >>]
  >>

\* the (key, label) pairs of category c, in catalog order
CategoryPairs(c) == field_categories[c].fields

RECURSIVE FlattenFrom(_)
FlattenFrom(c) ==
  IF c > Len(field_categories) THEN << >>
  ELSE CategoryPairs(c) \o FlattenFrom(c + 1)

AllPairs == FlattenFrom(1)

\* self.all_fields.keys()
AllFieldKeys == {p[1] : p \in Range(AllPairs)}

\* self.all_fields: the flat mapping key -> label
all_fields ==
  [k \in AllFieldKeys |-> (CHOOSE p \in Range(AllPairs) : p[1] = k)[2]]

(***************************************************************************)
(* colorize.  A piece of text is the triple <<prefix, text, suffix>> of    *)
(* the codes around it; text returned as it is has empty codes.            *)
(***************************************************************************)
colorize(cols, text, color) ==
  IF color \in DOMAIN cols
    THEN <<cols[color], text, cols["reset"]>>
    ELSE <<"", text, "">>

(***************************************************************************)
(* The formatter.  A formatted string is a record naming the format        *)
(* applied and the value it was applied to; [f |-> "raise"] is an          *)
(* exception raised while formatting.                                      *)
(***************************************************************************)
Raise(e) == [f |-> "raise", exc |-> e]

Raises(x) == x.f = "raise"

\* str(value)
PyStr(value) == [f |-> "str", v |-> value]

\* locale.currency(value, grouping=True), or "${value:,.2f}" when the locale
\* cannot format a currency; the bare except also catches a wrong type, and
\* the fallback then raises on a string
format_currency(value, localeOK) ==
  IF IsNumber(value)
    THEN IF localeOK THEN [f |-> "locale.currency", v |-> value]
                     ELSE [f |-> "$,.2f", v |-> value]
    ELSE Raise("ValueError")

\* "{value:+.2f}%"
format_percentage(value) ==
  IF IsNumber(value) THEN [f |-> "+.2f%", v |-> value] ELSE Raise("ValueError")

format_large_number(value) ==
  IF ~IsNumber(value) THEN Raise("TypeError")
  ELSE IF GeTrillion(value) THEN [f |-> "$.2fT", v |-> value]
  ELSE IF GeInt(value, BILLION) THEN [f |-> "$.2fB", v |-> value]
  ELSE IF GeInt(value, MILLION) THEN [f |-> "$.2fM", v |-> value]
  ELSE IF GeInt(value, THOUSAND) THEN [f |-> "$.2fK", v |-> value]
  ELSE [f |-> "$,.2f", v |-> value]

PercentFields ==
  {"dividendYield", "payoutRatio", "profitMargins", "operatingMargins",
   "ebitdaMargins", "grossMargins", "returnOnAssets", "returnOnEquity",
   "returnOnCapital", "revenueGrowth", "earningsGrowth",
   "earningsQuarterlyGrowth", "fiftyTwoWeekChangePercent",
   "shortPercentOfFloat"}

LargeFields ==
  {"marketCap", "enterpriseValue", "revenue", "grossProfits", "freeCashflow",
   "operatingCashflow", "targetMeanPrice", "targetMedianPrice",
   "targetHighPrice", "targetLowPrice", "fiftyDayAverage",
   "twoHundredDayAverage", "fiftyTwoWeekLow", "fiftyTwoWeekHigh",
   "fiftyTwoWeekChange", "bookValue", "dividendRate", "lastDividendValue"}

RatioFields ==
  {"trailingPE", "forwardPE", "pegRatio", "priceToBook",
   "enterpriseToRevenue", "enterpriseToEbitda",
   "priceToSalesTrailing12Months", "shortRatio", "recommendationMean"}

CountFields ==
  {"volume", "averageVolume", "averageVolume10days", "bidSize", "askSize",
   "floatShares", "sharesOutstanding", "sharesShort", "sharesShortPriorMonth",
   "numberOfAnalystOpinions", "fullTimeEmployees"}

format_field_value(field_key, value) ==
  IF IsNone(value) THEN [f |-> "N/A"]
  ELSE IF field_key \in PercentFields
    THEN IF IsNumber(value) THEN [f |-> ".2f%", v |-> MulInt(value, 100)]
                            ELSE PyStr(value)
  ELSE IF field_key \in LargeFields
    THEN IF IsNumber(value) THEN format_large_number(value) ELSE PyStr(value)
  ELSE IF field_key \in RatioFields
    THEN IF IsNumber(value) THEN [f |-> ".2f", v |-> value] ELSE PyStr(value)
  ELSE IF field_key \in CountFields
    THEN IF IsNumber(value) THEN [f |-> ",", v |-> value] ELSE PyStr(value)
  ELSE PyStr(value)

(***************************************************************************)
(* Symbols are sequences of characters.                                    *)
(***************************************************************************)
UpperChar(c) ==
  CASE c = "a" -> "A"
    [] c = "b" -> "B"
    [] OTHER -> c

\* symbol.upper()
Upper(s) == [i \in 1..Len(s) |-> UpperChar(s[i])]

IsSpace(c) == c = " "

RECURSIVE LStrip(_)
LStrip(s) ==
  IF s # << >> /\ IsSpace(Head(s)) THEN LStrip(Tail(s)) ELSE s

RECURSIVE RStrip(_)
RStrip(s) ==
  IF s # << >> /\ IsSpace(s[Len(s)]) THEN RStrip(SubSeq(s, 1, Len(s) - 1))
  ELSE s

\* symbol.strip()
Strip(s) == RStrip(LStrip(s))

(***************************************************************************)
(* The data provider (yfinance), as the program sees it: a response says   *)
(* whether a call raises and what the calls return.  A historical window   *)
(* is its rows, oldest first, and the set of optional columns it has.      *)
(***************************************************************************)
OptionalColumns == {"Volume", "High", "Low", "Open"}

Row(i, c) ==
  [Date |-> i, Open |-> Num(c), High |-> Num(c + 1), Low |-> Num(c),
   Close |-> Num(c), Volume |-> Num(1000 * (c + 1))]

MkHist(closes, cols) ==
  [rows |-> [i \in 1..Len(closes) |-> Row(i, closes[i])], cols |-> cols]

\* hist.empty
HistEmpty(hist) == Len(hist.rows) = 0

\* hist[column].iloc[-k]
ILoc(hist, column, k) == hist.rows[Len(hist.rows) + 1 - k][column]

\* datetime.now().strftime("%Y-%m-%d %H:%M:%S")
Now == Str(<<"n", "o", "w">>)

\* a fetch that goes on calling the provider after a call raised
CallsPastRaise(order, raiseAt) == order

\* the provider calls a fetch makes, up to and including one that raises
CallsUpTo(order, raiseAt) ==
  IF \E i \in 1..Len(order) : order[i] = raiseAt
    THEN SubSeq(order, 1, CHOOSE i \in 1..Len(order) : order[i] = raiseAt)
    ELSE order

(***************************************************************************)
(* get_stock_data                                                          *)
(***************************************************************************)
HeadlineKeys ==
  {"symbol", "name", "current_price", "previous_close", "change",
   "change_percent", "volume", "high", "low", "timestamp"}

\* the previous close read from the last row
PreviousCloseLastRow(hist, current_price) == ILoc(hist, "Close", 1)

\* hist['Close'].iloc[-2] if len(hist) > 1 else current_price
PreviousClose(hist, current_price) ==
  IF Len(hist.rows) > 1 THEN ILoc(hist, "Close", 2) ELSE current_price

\* (change / previous_close) * 100 if previous_close != 0 else 0
ChangePercent(change, previous_close) ==
  IF previous_close # Num(0)
    THEN MulInt(TrueDiv(change, previous_close), 100)
    ELSE Num(0)

\* the base data structure
BaseData(symbol, info, hist) ==
  LET current_price == ILoc(hist, "Close", 1)
      previous_close == PreviousClose(hist, current_price)
      change == Sub(current_price, previous_close)
  IN  [symbol |-> Str(symbol),
       name |-> Get(info, "longName", Get(info, "shortName", Str(symbol))),
       current_price |-> current_price,
       previous_close |-> previous_close,
       change |-> change,
       change_percent |-> ChangePercent(change, previous_close),
       volume |-> IF "Volume" \in hist.cols THEN ILoc(hist, "Volume", 1)
                                            ELSE Num(0),
       high |-> IF "High" \in hist.cols THEN ILoc(hist, "High", 1)
                                        ELSE current_price,
       low |-> IF "Low" \in hist.cols THEN ILoc(hist, "Low", 1)
                                      ELSE current_price,
       timestamp |-> Now]

\* the keys the catalog loop copies from the provider metadata:
\* field_key in info and info[field_key] is not None
MergedKeys(info) ==
  {k \in DOMAIN info : k \in AllFieldKeys /\ ~IsNone(info[k])}

\* for field_key in self.all_fields.keys(): data[field_key] = info[field_key]
MergeCatalog(base, info) ==
  LET merged == MergedKeys(info)
  IN  [k \in (DOMAIN base) \cup merged |->
          IF k \in merged THEN info[k] ELSE base[k]]

Dict(d) == [t |-> "dict", d |-> d]

\* truth value of "data" in "if not data"
Truthy(x) == x.t = "dict" /\ DOMAIN x.d # {}

StockDataCalls == <<"Ticker", "info", "history">>

\* get_stock_data without the hist.empty check: iloc[-1] of an empty window
\* raises IndexError, which the except clause reports
get_stock_data_NoEmptyCheck(symbol, resp) ==
  LET sym == Strip(Upper(symbol))
      made == CallsUpTo(StockDataCalls, resp.raiseAt)
  IN  IF resp.raiseAt \in Range(StockDataCalls)
        THEN [ret |-> None,
              err |-> <<[k |-> "Error fetching data for", symbol |-> sym,
                         msg |-> resp.msg]>>,
              calls |-> made]
      ELSE IF HistEmpty(resp.hist)
        THEN [ret |-> None,
              err |-> <<[k |-> "Error fetching data for", symbol |-> sym,
                         msg |-> "IndexError"]>>,
              calls |-> made]
      ELSE [ret |-> Dict(MergeCatalog(BaseData(sym, resp.info, resp.hist),
                                      resp.info)),
            err |-> << >>, calls |-> made]

get_stock_data(symbol, resp) ==
  LET sym == Strip(Upper(symbol))
      made == CallsUpTo(StockDataCalls, resp.raiseAt)
  IN  IF resp.raiseAt \in Range(StockDataCalls)
        THEN [ret |-> None,
              err |-> <<[k |-> "Error fetching data for", symbol |-> sym,
                         msg |-> resp.msg]>>,
              calls |-> made]
      ELSE IF HistEmpty(resp.hist)
        THEN [ret |-> None, err |-> << >>, calls |-> made]
      ELSE [ret |-> Dict(MergeCatalog(BaseData(sym, resp.info, resp.hist),
                                      resp.info)),
            err |-> << >>, calls |-> made]

(***************************************************************************)
(* get_historical_data                                                     *)
(***************************************************************************)
\* hist[column].tolist() if column in hist.columns else []
Column(hist, column) ==
  IF column \in hist.cols
    THEN [i \in 1..Len(hist.rows) |-> hist.rows[i][column]]
    ELSE << >>

HistoricalCalls == <<"Ticker", "history">>

get_historical_data(symbol, period, resp) ==
  LET sym == Strip(Upper(symbol))
      made == CallsUpTo(HistoricalCalls, resp.raiseAt)
  IN  IF resp.raiseAt \in Range(HistoricalCalls)
        THEN [ret |-> None,
              err |-> <<[k |-> "Error fetching historical data for",
                         symbol |-> sym, msg |-> resp.msg]>>,
              calls |-> made]
      ELSE IF HistEmpty(resp.hist)
        THEN [ret |-> None, err |-> << >>, calls |-> made]
      ELSE [ret |-> Dict([symbol |-> Str(sym),
                          dates |-> [i \in 1..Len(resp.hist.rows) |->
                                       [f |-> "%d/%m/%Y",
                                        v |-> resp.hist.rows[i].Date]],
                          prices |-> [i \in 1..Len(resp.hist.rows) |->
                                        resp.hist.rows[i].Close],
                          volumes |-> Column(resp.hist, "Volume"),
                          highs |-> Column(resp.hist, "High"),
                          lows |-> Column(resp.hist, "Low"),
                          opens |-> Column(resp.hist, "Open")]),
            err |-> << >>, calls |-> made]

(***************************************************************************)
(* The presenter.  A print statement is the line it prints, or the         *)
(* exception its f-string raises; the statements of a function run in      *)
(* order until one raises.                                                 *)
(***************************************************************************)
\* the statement print(line), whose f-string formats fmt
PrintWith(fmt, line) ==
  IF Raises(fmt) THEN [k |-> "raise", exc |-> fmt.exc] ELSE line

RaisingAt(items) == {i \in 1..Len(items) : items[i].k = "raise"}

RunPrints(items) ==
  IF RaisingAt(items) = {} THEN [out |-> items, exc |-> "none"]
  ELSE LET m == CHOOSE i \in RaisingAt(items) :
                    \A j \in RaisingAt(items) : i <= j
       IN  [out |-> SubSeq(items, 1, m - 1), exc |-> items[m].exc]

\* "{value:.2f}" and "{value:,}"
FormatSpec(spec, value) ==
  IF IsNumber(value) THEN [f |-> spec, v |-> value] ELSE Raise("ValueError")

\* "{value*100:.2f}%": a string times 100 is a string, which .2f rejects
FormatTimes100(value) ==
  IF IsNumber(value) THEN [f |-> ".2f%", v |-> MulInt(value, 100)]
                     ELSE Raise("ValueError")

_display_detailed_info(d, cols) ==
  <<[k |-> "heading", text |-> colorize(cols, "Additional Info:", "bold")]>>
  \o (IF "marketCap" \in DOMAIN d
        THEN <<PrintWith(format_large_number(d["marketCap"]),
                 [k |-> "legacy", label |-> "Market Cap",
                  value |-> format_large_number(d["marketCap"])])>>
        ELSE << >>)
  \o (IF "trailingPE" \in DOMAIN d
        THEN <<PrintWith(FormatSpec(".2f", d["trailingPE"]),
                 [k |-> "legacy", label |-> "P/E Ratio",
                  value |-> FormatSpec(".2f", d["trailingPE"])])>>
        ELSE << >>)
  \o (IF "dividendYield" \in DOMAIN d
        THEN <<PrintWith(FormatTimes100(d["dividendYield"]),
                 [k |-> "legacy", label |-> "Dividend Yield",
                  value |-> FormatTimes100(d["dividendYield"])])>>
        ELSE << >>)

\* one requested key, looked up in the record instead of the catalog
SpecificFieldLineByRecord(d, field) ==
  IF field \in DOMAIN d /\ field \in AllFieldKeys
    THEN PrintWith(format_field_value(field, Get(d, field, None)),
           [k |-> "field", label |-> all_fields[field],
            value |-> format_field_value(field, Get(d, field, None))])
    ELSE [k |-> "field", label |-> field,
          value |-> [f |-> "Field not available"]]

\* one requested key
SpecificFieldLine(d, field) ==
  IF field \in AllFieldKeys
    THEN PrintWith(format_field_value(field, Get(d, field, None)),
           [k |-> "field", label |-> all_fields[field],
            value |-> format_field_value(field, Get(d, field, None))])
    ELSE [k |-> "field", label |-> field,
          value |-> [f |-> "Field not available"]]

_display_specific_fields(d, fields, cols) ==
  <<[k |-> "heading", text |-> colorize(cols, "Requested Fields:", "bold")]>>
  \o [i \in 1..Len(fields) |-> SpecificFieldLine(d, fields[i])]

\* category_data of category c: the pairs whose key has data
CategoryData(d, c) ==
  LET HasData(p) == p[1] \in DOMAIN d /\ ~IsNone(d[p[1]])
  IN  SelectSeq(CategoryPairs(c), HasData)

\* the loop body printing the heading of a category without data too
CategoryBlockAlwaysHeading(d, c, cols) ==
  LET category_data == CategoryData(d, c)
  IN  <<[k |-> "category", name |-> field_categories[c].name,
         text |-> colorize(cols, field_categories[c].name, "bold")]>>
      \o [i \in 1..Len(category_data) |->
            [k |-> "field", label |-> category_data[i][2],
             value |-> format_field_value(category_data[i][1],
                                          d[category_data[i][1]])]]

\* what the loop body prints for category c
CategoryBlock(d, c, cols) ==
  LET category_data == CategoryData(d, c)
  IN  IF category_data # << >>
        THEN <<[k |-> "category", name |-> field_categories[c].name,
                text |-> colorize(cols, field_categories[c].name, "bold")]>>
             \o [i \in 1..Len(category_data) |->
                   [k |-> "field", label |-> category_data[i][2],
                    value |-> format_field_value(category_data[i][1],
                                                 d[category_data[i][1]])]]
        ELSE << >>

RECURSIVE AllFieldsFrom(_, _, _)
AllFieldsFrom(d, c, cols) ==
  IF c > Len(field_categories) THEN << >>
  ELSE CategoryBlock(d, c, cols) \o AllFieldsFrom(d, c + 1, cols)

_display_all_fields(d, cols) == AllFieldsFrom(d, 1, cols)

\* a --fields argument: None, or a list of keys
List(l) == [t |-> "list", l |-> l]

\* truth value of specific_fields
FieldsGiven(fields) == fields.t = "list" /\ fields.l # << >>

\* the block chosen with --fields taking precedence over --all
AdditionalBlockFieldsFirst(d, detailed, specific_fields, show_all, cols) ==
  IF detailed \/ FieldsGiven(specific_fields) \/ show_all
    THEN IF FieldsGiven(specific_fields)
           THEN _display_specific_fields(d, specific_fields.l, cols)
         ELSE IF show_all THEN _display_all_fields(d, cols)
         ELSE _display_detailed_info(d, cols)
    ELSE << >>

\* the block chosen by "if detailed or specific_fields or show_all"
AdditionalBlock(d, detailed, specific_fields, show_all, cols) ==
  IF detailed \/ FieldsGiven(specific_fields) \/ show_all
    THEN IF show_all THEN _display_all_fields(d, cols)
         ELSE IF FieldsGiven(specific_fields)
           THEN _display_specific_fields(d, specific_fields.l, cols)
         ELSE _display_detailed_info(d, cols)
    ELSE << >>

\* the trading info block of the detailed mode
TradingInfo(d, detailed, cols, localeOK) ==
  IF detailed
    THEN <<[k |-> "heading",
            text |-> colorize(cols, "Trading Info:", "bold")],
           PrintWith(format_currency(d["high"], localeOK),
             [k |-> "trading", label |-> "High",
              value |-> format_currency(d["high"], localeOK)]),
           PrintWith(format_currency(d["low"], localeOK),
             [k |-> "trading", label |-> "Low",
              value |-> format_currency(d["low"], localeOK)]),
           PrintWith(FormatSpec(",", d["volume"]),
             [k |-> "trading", label |-> "Volume",
              value |-> FormatSpec(",", d["volume"])])>>
    ELSE << >>

Rule(cols) == [k |-> "rule", text |-> colorize(cols, "=" , "bold")]

PriceBlock(d, cols, localeOK) ==
  LET price_color == IF NonNegative(d["change"]) THEN "green" ELSE "red"
      change_symbol == IF NonNegative(d["change"]) THEN "up" ELSE "down"
      price == format_currency(d["current_price"], localeOK)
      amount == format_currency(d["change"], localeOK)
      percent == format_percentage(d["change_percent"])
      previous == format_currency(d["previous_close"], localeOK)
  IN  <<PrintWith(price,
          [k |-> "price", label |-> colorize(cols, "Current Price:", "bold"),
           value |-> colorize(cols, price, price_color)]),
        PrintWith(IF Raises(amount) THEN amount ELSE percent,
          [k |-> "change", label |-> colorize(cols, "Change:", "bold"),
           value |-> colorize(cols, <<change_symbol, amount, percent>>,
                              price_color)]),
        PrintWith(previous,
          [k |-> "previous",
           label |-> colorize(cols, "Previous Close:", "bold"),
           value |-> previous])>>

Header(d, cols) ==
  <<Rule(cols),
    [k |-> "title",
     text |-> colorize(cols, <<d["name"], d["symbol"]>>, "bold")],
    Rule(cols)>>

Footer(d, cols) ==
  <<[k |-> "footer", label |-> colorize(cols, "Last Updated:", "bold"),
     value |-> d["timestamp"]],
    Rule(cols)>>

display_stock_info(x, detailed, specific_fields, show_all, cols, localeOK) ==
  IF ~Truthy(x)
    THEN [out |-> <<[k |-> "No data available for this symbol."]>>,
          exc |-> "none"]
    ELSE RunPrints(Header(x.d, cols)
                   \o PriceBlock(x.d, cols, localeOK)
                   \o TradingInfo(x.d, detailed, cols, localeOK)
                   \o AdditionalBlock(x.d, detailed, specific_fields,
                                      show_all, cols)
                   \o Footer(x.d, cols))

(***************************************************************************)
(* display_chart.  PLOTEXT_AVAILABLE is plotext.                           *)
(***************************************************************************)
\* what the chart types draw, given the historical data
RenderChart(h, symbol, period, chart_type) ==
  IF chart_type = "line"
    THEN [out |-> <<[k |-> "chart", kind |-> "line", x |-> h["dates"],
                     y |-> h["prices"], symbol |-> symbol,
                     period |-> period]>>,
          calls |-> <<"plt.plot", "plt.show">>]
  ELSE IF chart_type = "volume"
    THEN IF Len(h["volumes"]) > 0
           THEN [out |-> <<[k |-> "chart", kind |-> "volume",
                            x |-> h["dates"], y |-> h["volumes"],
                            symbol |-> symbol, period |-> period]>>,
                 calls |-> <<"plt.bar", "plt.show">>]
           ELSE [out |-> <<[k |-> "Volume data not available"]>>,
                 calls |-> << >>]
  ELSE [out |-> << >>, calls |-> << >>]

\* display_chart fetching before it looks for plotext
display_chart_FetchFirst(symbol, period, chart_type, available, resp) ==
  LET got == get_historical_data(symbol, period, resp)
      fetch == <<"get_historical_data">> \o got.calls
  IN  IF ~available
        THEN [out |-> <<[k |-> "Charting requires plotext library."]>>,
              err |-> got.err, calls |-> fetch]
      ELSE IF ~Truthy(got.ret)
        THEN [out |-> <<[k |-> "Could not fetch historical data for",
                         symbol |-> symbol]>>,
              err |-> got.err, calls |-> fetch]
      ELSE LET drawn == RenderChart(got.ret.d, symbol, period, chart_type)
           IN  [out |-> drawn.out, err |-> got.err,
                calls |-> fetch \o drawn.calls]

display_chart(symbol, period, chart_type, available, resp) ==
  IF ~available
    THEN [out |-> <<[k |-> "Charting requires plotext library."]>>,
          err |-> << >>, calls |-> << >>]
  ELSE LET got == get_historical_data(symbol, period, resp)
           fetch == <<"get_historical_data">> \o got.calls
       IN  IF ~Truthy(got.ret)
             THEN [out |-> <<[k |-> "Could not fetch historical data for",
                              symbol |-> symbol]>>,
                   err |-> got.err, calls |-> fetch]
             ELSE LET drawn == RenderChart(got.ret.d, symbol, period,
                                           chart_type)
                  IN  [out |-> drawn.out, err |-> got.err,
                       calls |-> fetch \o drawn.calls]

(***************************************************************************)
(* _list_available_fields                                                  *)
(***************************************************************************)
CatalogListing(c, cols) ==
  <<[k |-> "category", name |-> field_categories[c].name,
     text |-> colorize(cols, field_categories[c].name, "bold")],
    [k |-> "underline", name |-> field_categories[c].name]>>
  \o [i \in 1..Len(CategoryPairs(c)) |->
        [k |-> "catalog", key |-> CategoryPairs(c)[i][1],
         label |-> CategoryPairs(c)[i][2]]]

RECURSIVE ListingFrom(_, _)
ListingFrom(c, cols) ==
  IF c > Len(field_categories) THEN << >>
  ELSE CatalogListing(c, cols) \o ListingFrom(c + 1, cols)

_list_available_fields(cols) ==
  <<[k |-> "heading", text |-> colorize(cols, "Available Fields:", "bold")],
    [k |-> "underline", name |-> "="]>>
  \o ListingFrom(1, cols)
  \o <<[k |-> "heading", text |-> colorize(cols, "Usage Examples:", "bold")],
       [k |-> "underline", name |-> "-"],
       [k |-> "example", text |-> "stk AAPL --all"],
       [k |-> "example",
        text |-> "stk NVDA --fields marketCap trailingPE dividendYield"],
       [k |-> "example",
        text |-> "stk TSLA --fields revenue profitMargins returnOnEquity"]>>

(***************************************************************************)
(* Inputs: the command lines and the provider's responses.                 *)
(***************************************************************************)
Symbols == {<<" ", "a", "B", " ">>, <<"A">>}

Periods == {"1mo", "1y"}

ChartTypes == {"line", "candlestick", "volume"}

\* the lists of 1..MaxFields keys drawn from pool
FieldLists(pool) == UNION {[1..n -> pool] : n \in 1..MaxFields}

FieldArgs(pool) == {None} \cup {List(l) : l \in FieldLists(pool)}

\* parse_args: every namespace the parser accepts, over the sample values
ArgSpace(symbols, fieldArgs) ==
  [symbol : {None, Str(<< >>)} \cup {Str(s) : s \in symbols},
   detailed : BOOLEAN, json : BOOLEAN, no_colors : BOOLEAN,
   chart : BOOLEAN, period : Periods, type : ChartTypes,
   all : BOOLEAN, fields : fieldArgs, list_fields : BOOLEAN]

NoArgs == [symbol |-> None, detailed |-> FALSE, json |-> FALSE,
           no_colors |-> FALSE, chart |-> FALSE, period |-> "1mo",
           type |-> "line", all |-> FALSE, fields |-> None,
           list_fields |-> FALSE]

InfoString == Str(<<"I", "n", "f">>)

\* the values the provider's metadata may carry under key k
InfoValuesOf(k) ==
  CASE k = "longName" -> {None, Str(<<"C", "o">>)}
    [] k = "shortName" -> {Str(<<"c">>)}
    [] k = "symbol" -> {Str(<<"X">>)}
    [] k = "volume" -> {Num(1500), InfoString}
    [] k = "marketCap" -> {None, Num(1500), InfoString}
    [] k = "trailingPE" -> {Num(15), InfoString}
    [] k = "dividendYield" -> {Rat(1, 100), InfoString}
    [] OTHER -> {InfoString}

\* the metadata dictionaries over a subset of keys
RECURSIVE Infos(_)
Infos(keys) ==
  IF keys = {} THEN {EmptyDict}
  ELSE LET k == CHOOSE x \in keys : TRUE
           rest == Infos(keys \ {k})
       IN  rest \cup {Put(f, k, v) : f \in rest, v \in InfoValuesOf(k)}

CloseSeqs == UNION {[1..n -> 0..MaxPrice] : n \in 0..MaxHist}

ColumnSets ==
  {OptionalColumns \ S :
     S \in {{}, {"Volume"}, {"High"}, {"Low"}, {"Open"}, OptionalColumns}}

RaisePoints == {"none", "Ticker", "info", "history"}

\* a call that raises returns nothing; the others answer with metadata and
\* a historical window
Responses(infos, hists) ==
  [t : {"response"}, raiseAt : RaisePoints \ {"none"}, msg : {"timeout"},
   info : {EmptyDict}, hist : {MkHist(<< >>, {})}]
  \cup [t : {"response"}, raiseAt : {"none"}, msg : {"timeout"},
        info : infos, hist : hists]

\* the responses the driver runs against
DriverResponses ==
  Responses(Infos({"marketCap"}),
            {MkHist(c, OptionalColumns) :
               c \in {<< >>, <<MaxPrice>>, <<MaxPrice, 0>>}})

\* the responses the fetcher is applied to
FetchResponses ==
  Responses(Infos({"longName", "shortName", "symbol", "volume", "marketCap",
                   "bogusKey"}),
            {MkHist(c, cs) : c \in CloseSeqs, cs \in ColumnSets})

\* the responses whose records the presenter is applied to
DisplayResponses ==
  [t : {"response"}, raiseAt : {"none"}, msg : {"timeout"},
   info : Infos({"marketCap", "trailingPE", "dividendYield", "volume"}),
   hist : {MkHist(c, OptionalColumns) :
             c \in {<<MaxPrice>>, <<MaxPrice, 0>>}}]

\* the command lines the driver is run on
DriverArgs ==
  ArgSpace({<<" ", "a", "B", " ">>},
           {None, List(<<"marketCap">>), List(<<"bogusField">>)})

(***************************************************************************)
(* run: the CLI driver, one invocation of the program.                     *)
(***************************************************************************)
Init ==
  /\ pc = "start"
  /\ plotext \in BOOLEAN
  /\ response = None
  /\ args = NoArgs
  /\ colors = InitColors
  /\ data = None
  /\ stdout = << >>
  /\ stderr = << >>
  /\ calls = << >>
  /\ exitStatus = "running"
  /\ raised = "none"

\* not parsed_args.symbol
SymbolGiven(a) == a.symbol.t = "str" /\ a.symbol.s # << >>

\* self.colors = {color: '' for color in self.colors}
NoColors(cols) == [c \in DOMAIN cols |-> ""]

\* the colour table after "if parsed_args.no_colors"
ColorsFor(a, cols) == IF a.no_colors THEN NoColors(cols) ELSE cols

\* parsed_args = parser.parse_args(args)
ParseArgs ==
  /\ pc = "start"
  /\ \E a \in DriverArgs : args' = a
  /\ pc' = "parsed"
  /\ UNCHANGED <<plotext, response, colors, data, stdout, stderr, calls,
                 exitStatus, raised>>

\* if parsed_args.list_fields: self._list_available_fields(); return
ListFields ==
  /\ pc = "parsed"
  /\ args.list_fields
  /\ stdout' = stdout \o _list_available_fields(colors)
  /\ calls' = calls \o <<"_list_available_fields">>
  /\ exitStatus' = "0"
  /\ pc' = "done"
  /\ UNCHANGED <<plotext, response, args, colors, data, stderr, raised>>

\* the symbol check, made before the --list-fields check
UsageErrorBeforeListFields ==
  /\ pc = "parsed"
  /\ ~SymbolGiven(args)
  /\ stderr' = stderr \o <<[k |-> "usage error"]>>
  /\ exitStatus' = "2"
  /\ pc' = "done"
  /\ UNCHANGED <<plotext, response, args, colors, data, stdout, calls, raised>>

\* parser.error("symbol is required unless using --list-fields")
UsageError ==
  /\ pc = "parsed"
  /\ ~args.list_fields
  /\ ~SymbolGiven(args) /\ ~args.list_fields
  /\ stderr' = stderr \o <<[k |-> "usage error"]>>
  /\ exitStatus' = "2"
  /\ pc' = "done"
  /\ UNCHANGED <<plotext, response, args, colors, data, stdout, calls, raised>>

\* if parsed_args.chart: self.display_chart(...); return
ChartPath ==
  /\ pc = "parsed"
  /\ ~args.list_fields
  /\ ~(~SymbolGiven(args) /\ ~args.list_fields)
  /\ args.chart
  /\ colors' = ColorsFor(args, colors)
  /\ \E resp \in DriverResponses :
       LET r == display_chart(args.symbol.s, args.period, args.type,
                              plotext, resp)
       IN  /\ response' = IF "get_historical_data" \in Range(r.calls)
                            THEN resp ELSE response
           /\ stdout' = stdout \o r.out
           /\ stderr' = stderr \o r.err
           /\ calls' = calls \o <<"display_chart">> \o r.calls
  /\ exitStatus' = "0"
  /\ pc' = "done"
  /\ UNCHANGED <<plotext, args, data, raised>>

\* data = self.get_stock_data(parsed_args.symbol)
FetchSnapshot ==
  /\ pc = "parsed"
  /\ ~args.list_fields
  /\ ~(~SymbolGiven(args) /\ ~args.list_fields)
  /\ ~args.chart
  /\ colors' = ColorsFor(args, colors)
  /\ \E resp \in DriverResponses :
       LET r == get_stock_data(args.symbol.s, resp)
       IN  /\ response' = resp
           /\ data' = r.ret
           /\ stderr' = stderr \o r.err
           /\ calls' = calls \o <<"get_stock_data">> \o r.calls
  /\ pc' = "fetched"
  /\ UNCHANGED <<plotext, args, stdout, exitStatus, raised>>

\* if not data: print(...); print(...); sys.exit(1)
FetchFailed ==
  /\ pc = "fetched"
  /\ ~Truthy(data)
  /\ stdout' = stdout \o <<[k |-> "Could not fetch data for symbol:",
                            symbol |-> args.symbol.s],
                           [k |-> "Please check the symbol and try again."]>>
  /\ exitStatus' = "1"
  /\ pc' = "done"
  /\ UNCHANGED <<plotext, response, args, colors, data, stderr, calls, raised>>

\* the record serialized as it is
JsonDataWithTimestamp(d) == d

\* json_data = data.copy(); del json_data['timestamp']
JsonData(d) == Del(d, "timestamp")

\* if parsed_args.json: print(json.dumps(json_data, indent=2))
PrintJson ==
  /\ pc = "fetched"
  /\ Truthy(data)
  /\ args.json
  /\ stdout' = stdout \o <<[k |-> "json", obj |-> JsonData(data.d)]>>
  /\ calls' = calls \o <<"json.dumps">>
  /\ exitStatus' = "0"
  /\ pc' = "done"
  /\ UNCHANGED <<plotext, response, args, colors, data, stderr, raised>>

\* the exit status of the interpreter: 1 after an uncaught exception
StatusAfter(exc) == IF exc = "none" THEN "0" ELSE "1"

\* else: self.display_stock_info(data, detailed, fields, all)
DisplayInfo ==
  /\ pc = "fetched"
  /\ Truthy(data)
  /\ ~args.json
  /\ \E localeOK \in BOOLEAN :
       LET r == display_stock_info(data, args.detailed, args.fields,
                                   args.all, colors, localeOK)
       IN  /\ stdout' = stdout \o r.out
           /\ raised' = r.exc
           /\ stderr' = IF r.exc = "none" THEN stderr
                        ELSE stderr \o <<[k |-> "Traceback", exc |-> r.exc]>>
           /\ exitStatus' = StatusAfter(r.exc)
  /\ calls' = calls \o <<"display_stock_info">>
  /\ pc' = "done"
  /\ UNCHANGED <<plotext, response, args, colors, data>>

Next ==
  \/ ParseArgs
  \/ ListFields
  \/ UsageError
  \/ ChartPath
  \/ FetchSnapshot
  \/ FetchFailed
  \/ PrintJson
  \/ DisplayInfo

Spec == Init /\ [][Next]_vars

(***************************************************************************)
(* The fetcher on its own: one call of get_stock_data or of                *)
(* get_historical_data on a fresh StockCLI.                                *)
(***************************************************************************)
InitFetch ==
  /\ pc = "fetch"
  /\ plotext = TRUE
  /\ response = None
  /\ args = NoArgs
  /\ colors = InitColors
  /\ data = None
  /\ stdout = << >>
  /\ stderr = << >>
  /\ calls = << >>
  /\ exitStatus = "running"
  /\ raised = "none"

\* data = cli.get_stock_data(symbol)
CallGetStockData ==
  /\ pc = "fetch"
  /\ \E s \in Symbols, resp \in FetchResponses :
       LET r == get_stock_data(s, resp)
       IN  /\ args' = [args EXCEPT !.symbol = Str(s)]
           /\ response' = resp
           /\ data' = r.ret
           /\ stderr' = stderr \o r.err
           /\ calls' = calls \o <<"get_stock_data">> \o r.calls
  /\ pc' = "stock_data"
  /\ UNCHANGED <<plotext, colors, stdout, exitStatus, raised>>

\* the responses get_historical_data is applied to
HistoricalResponses ==
  Responses({EmptyDict}, {MkHist(c, cs) : c \in CloseSeqs, cs \in ColumnSets})

\* data = cli.get_historical_data(symbol, period)
CallGetHistoricalData ==
  /\ pc = "fetch"
  /\ \E s \in Symbols, p \in Periods, resp \in HistoricalResponses :
       LET r == get_historical_data(s, p, resp)
       IN  /\ args' = [args EXCEPT !.symbol = Str(s), !.period = p]
           /\ response' = resp
           /\ data' = r.ret
           /\ stderr' = stderr \o r.err
           /\ calls' = calls \o <<"get_historical_data">> \o r.calls
  /\ pc' = "historical_data"
  /\ UNCHANGED <<plotext, colors, stdout, exitStatus, raised>>

NextFetch ==
  \/ CallGetStockData
  \/ CallGetHistoricalData

SpecFetch == InitFetch /\ [][NextFetch]_vars

(***************************************************************************)
(* The presenter on its own: one call of display_stock_info on a record    *)
(* get_stock_data returned, in a locale without currency formatting.       *)
(***************************************************************************)
InitDisplay ==
  /\ pc = "display"
  /\ plotext = TRUE
  /\ response = None
  /\ args = NoArgs
  /\ colors = InitColors
  /\ data = None
  /\ stdout = << >>
  /\ stderr = << >>
  /\ calls = << >>
  /\ exitStatus = "running"
  /\ raised = "none"

DisplayFieldPool == {"marketCap", "name", "bogusField"}

\* cli.display_stock_info(cli.get_stock_data(symbol), detailed, fields, all)
CallDisplayStockInfo ==
  /\ pc = "display"
  /\ \E s \in {<<"A">>}, resp \in DisplayResponses, detailed \in BOOLEAN,
        show_all \in BOOLEAN, fields \in FieldArgs(DisplayFieldPool),
        no_colors \in BOOLEAN, localeOK \in {FALSE} :
       LET a == [args EXCEPT !.symbol = Str(s), !.detailed = detailed,
                             !.all = show_all, !.fields = fields,
                             !.no_colors = no_colors]
           got == get_stock_data(s, resp)
           r == display_stock_info(got.ret, detailed, fields, show_all,
                                   ColorsFor(a, colors), localeOK)
       IN  /\ args' = a
           /\ response' = resp
           /\ colors' = ColorsFor(a, colors)
           /\ data' = got.ret
           /\ stdout' = stdout \o r.out
           /\ raised' = r.exc
           /\ calls' = calls \o <<"get_stock_data">> \o got.calls
                             \o <<"display_stock_info">>
  /\ pc' = "displayed"
  /\ UNCHANGED <<plotext, stderr, exitStatus>>

NextDisplay == CallDisplayStockInfo

SpecDisplay == InitDisplay /\ [][NextDisplay]_vars

(***************************************************************************)
(* Properties of the driver (Spec).                                        *)
(***************************************************************************)
ProviderCalls == {"Ticker", "info", "history"}

FetchFunctions == {"get_stock_data", "get_historical_data"}

\* the invocation reached the chart path
OnChartPath == ~args.list_fields /\ SymbolGiven(args) /\ args.chart

\* the invocation reached the snapshot path
OnSnapshotPath == ~args.list_fields /\ SymbolGiven(args) /\ ~args.chart

\* the lines of kind k in a stream
LinesOf(stream, k) == {i \in 1..Len(stream) : stream[i].k = k}

\* C1: every invocation with --list-fields, whatever else is on the command
\* line, prints the whole catalog, ends with exit status 0, raises no usage
\* error and reaches neither get_stock_data nor get_historical_data nor the
\* provider.
C1_ListFieldsShortCircuits ==
  (pc # "start" /\ args.list_fields) =>
    /\ Range(calls) \cap (FetchFunctions \cup ProviderCalls) = {}
    /\ response = None /\ data = None
    /\ stderr = << >> /\ raised = "none"
    /\ exitStatus \in {"running", "0"}
    /\ pc \in {"parsed", "done"}
    /\ pc = "parsed" =>
         /\ ENABLED ListFields
         /\ ~ENABLED UsageError /\ ~ENABLED ChartPath
         /\ ~ENABLED FetchSnapshot
    /\ pc = "done" =>
         /\ exitStatus = "0"
         /\ calls = <<"_list_available_fields">>
         /\ \A p \in Range(AllPairs) :
              \E i \in LinesOf(stdout, "catalog") :
                stdout[i].key = p[1] /\ stdout[i].label = p[2]

C1_Witness ==
  /\ pc = "done" /\ args.list_fields
  /\ args.symbol = None /\ args.chart /\ args.json /\ args.detailed
  /\ args.all /\ args.no_colors /\ args.fields # None
  /\ LinesOf(stdout, "catalog") # {}

\* C2: on the snapshot path a failed fetch prints the failure message to
\* stdout and ends with exit status 1 without serializing JSON or calling
\* display_stock_info; and exit status 1 is produced only by a failed fetch
\* on the snapshot path.
C2_ExitOneOnlyOnFailedFetch ==
  pc = "done" =>
    /\ (OnSnapshotPath /\ ~Truthy(data)) =>
         /\ exitStatus = "1"
         /\ stdout = <<[k |-> "Could not fetch data for symbol:",
                        symbol |-> args.symbol.s],
                       [k |-> "Please check the symbol and try again."]>>
         /\ Range(calls) \cap {"json.dumps", "display_stock_info"} = {}
    /\ exitStatus = "1" => (OnSnapshotPath /\ ~Truthy(data))

\* C3: with --chart and a symbol only the chart path runs, whatever --json,
\* -d, --all and --fields say: get_stock_data is not called, nothing of the
\* snapshot or JSON output is printed and the exit status is 0; without
\* plotext only the hint is printed and get_historical_data is not called;
\* after a failed historical fetch only the failure message is printed and
\* nothing is plotted; otherwise a line chart is drawn when the type is line.
HistoricalFetchFailed ==
  \/ response.raiseAt \in Range(HistoricalCalls)
  \/ HistEmpty(response.hist)

C3_ChartPathOnly ==
  (pc # "start" /\ OnChartPath) =>
    /\ pc \in {"parsed", "done"}
    /\ pc = "parsed" =>
         /\ ENABLED ChartPath
         /\ ~ENABLED FetchSnapshot /\ ~ENABLED UsageError
         /\ ~ENABLED ListFields
    /\ pc = "done" =>
         /\ exitStatus = "0" /\ raised = "none" /\ data = None
         /\ Range(calls) \cap {"get_stock_data", "info", "json.dumps",
                               "display_stock_info"} = {}
         /\ \A i \in 1..Len(stdout) :
              stdout[i].k \in {"Charting requires plotext library.",
                               "Could not fetch historical data for",
                               "chart", "Volume data not available"}
         /\ ~plotext =>
              /\ stdout = <<[k |-> "Charting requires plotext library."]>>
              /\ calls = <<"display_chart">>
              /\ response = None
         /\ plotext =>
              /\ response # None
              /\ calls[2] = "get_historical_data"
              /\ HistoricalFetchFailed =>
                   /\ stdout = <<[k |-> "Could not fetch historical data for",
                                  symbol |-> args.symbol.s]>>
                   /\ Range(calls) \cap {"plt.plot", "plt.bar", "plt.show"}
                        = {}
              /\ (~HistoricalFetchFailed /\ args.type = "line") =>
                   /\ Len(stdout) = 1
                   /\ stdout[1].k = "chart" /\ stdout[1].kind = "line"
                   /\ Len(stdout[1].y) = Len(response.hist.rows)

C3_Witness ==
  /\ pc = "done" /\ OnChartPath
  /\ args.json /\ args.detailed /\ args.all /\ args.fields # None
  /\ plotext /\ ~HistoricalFetchFailed
  /\ LinesOf(stdout, "chart") # {}

\* the fetch function this invocation called, and the provider calls it makes
FetchCalled == CHOOSE f \in FetchFunctions : f \in Range(calls)

OrderOf(f) == IF f = "get_stock_data" THEN StockDataCalls ELSE HistoricalCalls

\* the provider raised inside the fetch function that was called
ProviderRaised ==
  /\ response # None
  /\ response.raiseAt \in Range(OrderOf(FetchCalled))

\* how many entries of calls are in the set fs
CountCalls(fs) == Cardinality({i \in 1..Len(calls) : calls[i] \in fs})

\* C5: an exception of the provider inside get_stock_data or
\* get_historical_data is caught there: one diagnostic line naming the
\* (normalised) symbol goes to stderr, the function returns no data, nothing
\* propagates, and the provider is not called after the call that raised;
\* an invocation performs at most one fetch operation.
C5_ProviderErrorCaughtOnce ==
  /\ CountCalls(FetchFunctions) <= 1
  /\ ProviderRaised =>
       /\ Len(stderr) = 1
       /\ stderr[1].k = (IF FetchCalled = "get_stock_data"
                           THEN "Error fetching data for"
                           ELSE "Error fetching historical data for")
       /\ stderr[1].symbol = Strip(Upper(args.symbol.s))
       /\ stderr[1].msg = response.msg
       /\ data = None
       /\ raised = "none"
       /\ \A i \in 1..Len(OrderOf(FetchCalled)) :
            CountCalls({OrderOf(FetchCalled)[i]}) <= 1
       /\ \E i \in 1..Len(calls) :
            /\ calls[i] = response.raiseAt
            /\ \A j \in (i + 1)..Len(calls) : calls[j] \notin ProviderCalls
       /\ pc = "done" => exitStatus = (IF args.chart THEN "0" ELSE "1")

C5_Witness ==
  /\ pc = "done" /\ ProviderRaised
  /\ FetchCalled = "get_historical_data"
  /\ response.raiseAt = "Ticker"
  /\ Len(stderr) = 1

C5_WitnessSnapshot ==
  /\ pc = "done" /\ ProviderRaised
  /\ FetchCalled = "get_stock_data"
  /\ response.raiseAt = "info"
  /\ calls = <<"get_stock_data", "Ticker", "info">>

\* C8: the object --json prints has the keys of the fetched record without
\* timestamp, and under each key the record's raw value: the value the
\* fetcher computed or the provider gave, never a formatted string.
JsonLines == LinesOf(stdout, "json")

C8_JsonRawWithoutTimestamp ==
  /\ JsonLines # {} => (pc = "done" /\ OnSnapshotPath /\ args.json)
  /\ (pc = "done" /\ OnSnapshotPath /\ args.json /\ Truthy(data)) =>
       /\ Len(stdout) = 1
       /\ stdout[1].k = "json"
       /\ "timestamp" \in DOMAIN data.d
       /\ "timestamp" \notin DOMAIN stdout[1].obj
       /\ DOMAIN stdout[1].obj = (DOMAIN data.d) \ {"timestamp"}
       /\ \A key \in DOMAIN stdout[1].obj :
            /\ stdout[1].obj[key] = data.d[key]
            /\ DOMAIN stdout[1].obj[key] \in {{"t", "n", "d"}, {"t", "s"}}
       /\ "marketCap" \in DOMAIN stdout[1].obj =>
            stdout[1].obj["marketCap"] = response.info["marketCap"]
       /\ stdout[1].obj["current_price"] =
            response.hist.rows[Len(response.hist.rows)].Close
       /\ exitStatus = "0"

C8_Witness ==
  /\ pc = "done" /\ JsonLines # {}
  /\ "marketCap" \in DOMAIN data.d
  /\ IsNumber(data.d["marketCap"])
  /\ args.detailed /\ args.all

(***************************************************************************)
(* Properties of the fetcher (SpecFetch).                                  *)
(***************************************************************************)
\* get_stock_data returned, the provider raised nothing and the historical
\* window was empty
EmptyWindow ==
  /\ pc = "stock_data"
  /\ response.raiseAt = "none"
  /\ HistEmpty(response.hist)

Closes == [i \in 1..Len(response.hist.rows) |-> response.hist.rows[i].Close]

\* C9: with exactly one historical row previous_close = current_price,
\* change = 0 and change_percent = 0, for every closing price, 0 included;
\* for every window current_price and previous_close are its last two
\* closing prices, change is their difference, change_percent is 0 when
\* previous_close is 0 and change * 100 / previous_close otherwise, and a
\* record is returned (nothing is raised by the division).
C9_ChangeComputation ==
  (pc = "stock_data" /\ response.raiseAt = "none"
     /\ ~HistEmpty(response.hist)) =>
    /\ Truthy(data) /\ stderr = << >>
    /\ LET d == data.d
           n == Len(Closes)
       IN  /\ d["current_price"] = Closes[n]
           /\ n = 1 =>
                /\ d["previous_close"] = d["current_price"]
                /\ d["change"] = Num(0)
                /\ d["change_percent"] = Num(0)
           /\ n > 1 => d["previous_close"] = Closes[n - 1]
           /\ d["change"].d = 1
           /\ d["change"].n = d["current_price"].n - d["previous_close"].n
           /\ d["previous_close"] = Num(0) => d["change_percent"] = Num(0)
           /\ d["previous_close"] # Num(0) =>
                d["change_percent"].n * d["previous_close"].n
                  = 100 * d["change"].n * d["change_percent"].d

C9_Witness ==
  /\ pc = "stock_data" /\ Truthy(data)
  /\ Len(response.hist.rows) = 1
  /\ data.d["current_price"] = Num(0)
  /\ data.d["change_percent"] = Num(0)

C9_WitnessZeroPrevious ==
  /\ pc = "stock_data" /\ Truthy(data)
  /\ Len(response.hist.rows) = 2
  /\ data.d["previous_close"] = Num(0)
  /\ data.d["current_price"] # Num(0)

(***************************************************************************)
(* Properties of the presenter (SpecDisplay).                              *)
(***************************************************************************)
\* the position of the heading of the requested-fields block in stdout
RequestedHeadings ==
  {i \in LinesOf(stdout, "heading") : stdout[i].text[2] = "Requested Fields:"}

\* C6: the requested-fields block prints one line per requested key, in the
\* order requested, duplicates included: for a catalog key its catalog label
\* and the formatted value of the record's entry, "N/A" when the record has
\* no such entry; for a key outside the catalog "Field not available" and
\* never "N/A".
C6_RequestedFieldsBlock ==
  /\ (pc = "displayed" /\ ~args.all /\ FieldsGiven(args.fields)
        /\ ~args.detailed) => RequestedHeadings # {}
  /\ RequestedHeadings # {} =>
       /\ ~args.all /\ FieldsGiven(args.fields)
       /\ Cardinality(RequestedHeadings) = 1
       /\ LET h == CHOOSE i \in RequestedHeadings : TRUE
              keys == args.fields.l
          IN  /\ Len(stdout) = h + Len(keys) + 2
              /\ stdout[h + Len(keys) + 1].k = "footer"
              /\ \A i \in 1..Len(keys) :
                   LET line == stdout[h + i]
                       key == keys[i]
                   IN  /\ line.k = "field"
                       /\ key \in AllFieldKeys =>
                            /\ line.label = all_fields[key]
                            /\ line.value.f # "Field not available"
                            /\ key \notin DOMAIN data.d =>
                                 line.value = [f |-> "N/A"]
                            /\ key \in DOMAIN data.d =>
                                 /\ line.value.f # "N/A"
                                 /\ line.value.v = data.d[key]
                                 /\ line.value.f = "str"
                                      <=> ~IsNumber(data.d[key])
                       /\ key \notin AllFieldKeys =>
                            /\ line.label = key
                            /\ line.value = [f |-> "Field not available"]

C6_Witness ==
  /\ pc = "displayed" /\ RequestedHeadings # {}
  /\ args.fields.l = <<"marketCap", "name">>
  /\ "marketCap" \notin DOMAIN data.d
  /\ "name" \in DOMAIN data.d

C6_WitnessDuplicate ==
  /\ pc = "displayed" /\ RequestedHeadings # {}
  /\ args.fields.l = <<"marketCap", "marketCap">>
  /\ "marketCap" \in DOMAIN data.d

\* the lines of the all-fields block: category headings and field lines
IsBlockLine(line) == line.k \in {"category", "field"}

AllBlock == SelectSeq(stdout, IsBlockLine)

\* the catalog position of every label: <<category, index in the category>>
LabelPosition ==
  [l \in {p[2] : p \in Range(AllPairs)} |->
     CHOOSE pos \in {<<c, i>> : c \in 1..Len(field_categories),
                                i \in 1..Len(AllPairs)} :
       /\ pos[2] <= Len(CategoryPairs(pos[1]))
       /\ CategoryPairs(pos[1])[pos[2]][2] = l]

\* the catalog position of every category heading: <<category, 0>>
CategoryPosition ==
  [n \in {field_categories[c].name : c \in 1..Len(field_categories)} |->
     <<CHOOSE c \in 1..Len(field_categories) :
         field_categories[c].name = n, 0>>]

CatalogPosition(line) ==
  IF line.k = "category" THEN CategoryPosition[line.name]
                         ELSE LabelPosition[line.label]

Before(p, q) == p[1] < q[1] \/ (p[1] = q[1] /\ p[2] < q[2])

\* C7: the --all block prints the categories in catalog order and within a
\* category the fields in catalog order; a field line is printed exactly when
\* the record has a non-null entry for the key; a category heading is printed
\* exactly when one of its fields is.
C7_AllFieldsBlock ==
  (pc = "displayed" /\ args.all /\ raised = "none") =>
    LET block == AllBlock
        labels == {block[j].label : j \in LinesOf(block, "field")}
        names == {block[j].name : j \in LinesOf(block, "category")}
    IN  /\ \A c \in 1..Len(field_categories) :
             /\ \A i \in 1..Len(CategoryPairs(c)) :
                  CategoryPairs(c)[i][2] \in labels <=>
                    /\ CategoryPairs(c)[i][1] \in DOMAIN data.d
                    /\ ~IsNone(data.d[CategoryPairs(c)[i][1]])
             /\ field_categories[c].name \in names <=>
                  \E i \in 1..Len(CategoryPairs(c)) :
                    CategoryPairs(c)[i][2] \in labels
        /\ \A j \in 1..(Len(block) - 1) :
             Before(CatalogPosition(block[j]), CatalogPosition(block[j + 1]))
        /\ RequestedHeadings = {}

C7_Witness ==
  /\ pc = "displayed" /\ args.all /\ raised = "none"
  /\ "marketCap" \notin DOMAIN data.d
  /\ "trailingPE" \in DOMAIN data.d
  /\ \E j \in 1..Len(stdout) :
       stdout[j].k = "category" /\ stdout[j].name = "Valuation Ratios"
  /\ FieldsGiven(args.fields)

\* C10: display_stock_info never raises and prints the "Last Updated" footer
\* once, as the last block of its output, for every record whose catalog
\* values are numbers or strings and every combination of -d, --fields and
\* --all.
C10_FormattingNeverFails ==
  pc = "displayed" =>
    /\ raised = "none"
    /\ Cardinality(LinesOf(stdout, "footer")) = 1
    /\ stdout[Len(stdout) - 1].k = "footer"

(***************************************************************************)
(* Colour (Spec).                                                          *)
(***************************************************************************)
\* the colour codes a printed line carries around its pieces of text
Codes(line) ==
  CASE line.k \in {"rule", "title", "heading", "category"} ->
         {line.text[1], line.text[3]}
    [] line.k \in {"price", "change"} ->
         {line.label[1], line.label[3], line.value[1], line.value[3]}
    [] line.k \in {"previous", "footer"} ->
         {line.label[1], line.label[3]}
    [] OTHER -> {}

\* the colour codes printed to stdout so far
CodesPrinted == UNION {Codes(stdout[i]) : i \in 1..Len(stdout)}

\* C11: in every invocation that passes --no-colors every colour code the
\* program emits is the empty string, and the colour table maps every colour
\* to the empty string, in every output mode (list-fields, plain, detailed,
\* fields, all).
C11_NoColorsDisablesEveryCode ==
  (pc = "done" /\ args.no_colors /\ stdout # << >>) =>
    /\ CodesPrinted \subseteq {""}
    /\ \A c \in DOMAIN colors : colors[c] = ""

(***************************************************************************)
(* Block selection (SpecDisplay).                                          *)
(***************************************************************************)
\* the positions of the headings with the given text
Headings(text) ==
  {i \in LinesOf(stdout, "heading") : stdout[i].text[2] = text}

AllFieldsPrinted == LinesOf(stdout, "category") # {}

RequestedPrinted == RequestedHeadings # {}

LegacyPrinted == Headings("Additional Info:") # {}

TradingPrinted == Headings("Trading Info:") # {}

IsTradingLine(line) == line.k = "trading"

\* the labels of the trading info lines, in the order printed
TradingLabels ==
  LET lines == SelectSeq(stdout, IsTradingLine)
  IN  [i \in 1..Len(lines) |-> lines[i].label]

\* the kinds of the first lines printed
KindsOfFirst(n) == [i \in 1..n |-> stdout[i].k]

\* C12: display_stock_info prints the header and the price block in every
\* case, the trading info block if and only if detailed is set, and at most
\* one of the all-fields, requested-fields and legacy blocks: the all-fields
\* block only with --all, the requested-fields block only with --fields and
\* without --all, the legacy block only with -d and without --all and
\* --fields; a call that returns normally prints exactly the block so chosen
\* and the three lines High, Low, Volume of the trading block.
C12_BlocksMutuallyExclusive ==
  pc = "displayed" =>
    /\ Len(stdout) >= 6
    /\ KindsOfFirst(6) =
         <<"rule", "title", "rule", "price", "change", "previous">>
    /\ TradingPrinted <=> args.detailed
    /\ LinesOf(stdout, "trading") # {} => TradingPrinted
    /\ ~(AllFieldsPrinted /\ RequestedPrinted)
    /\ ~(AllFieldsPrinted /\ LegacyPrinted)
    /\ ~(RequestedPrinted /\ LegacyPrinted)
    /\ AllFieldsPrinted => args.all
    /\ RequestedPrinted => ~args.all /\ FieldsGiven(args.fields)
    /\ LegacyPrinted =>
         args.detailed /\ ~args.all /\ ~FieldsGiven(args.fields)
    /\ LinesOf(stdout, "field") # {} => AllFieldsPrinted \/ RequestedPrinted
    /\ LinesOf(stdout, "legacy") # {} => LegacyPrinted
    /\ raised = "none" =>
         /\ AllFieldsPrinted <=> args.all
         /\ RequestedPrinted <=> (~args.all /\ FieldsGiven(args.fields))
         /\ LegacyPrinted <=>
              (args.detailed /\ ~args.all /\ ~FieldsGiven(args.fields))
         /\ args.detailed => TradingLabels = <<"High", "Low", "Volume">>

C12_Witness ==
  /\ pc = "displayed" /\ raised = "none"
  /\ args.all /\ args.detailed /\ FieldsGiven(args.fields)
  /\ AllFieldsPrinted /\ TradingPrinted
  /\ ~RequestedPrinted /\ ~LegacyPrinted

C12_WitnessLegacy ==
  /\ pc = "displayed" /\ raised = "none"
  /\ args.detailed /\ ~args.all /\ ~FieldsGiven(args.fields)
  /\ LegacyPrinted /\ LinesOf(stdout, "legacy") # {}

(***************************************************************************)
(* Headline fields after the catalog merge (SpecFetch).                    *)
(***************************************************************************)
\* the volume of the last historical sample, 0 without a Volume column
LastVolume ==
  IF "Volume" \in response.hist.cols THEN ILoc(response.hist, "Volume", 1)
                                     ELSE Num(0)

\* C13: in every record returned by get_stock_data `symbol` is the uppercased,
\* trimmed input symbol and `volume` is the volume of the last historical
\* sample, whatever the provider metadata contains, and the key set of the
\* record is a subset of the ten headline keys plus the catalog keys.
C13_HeadlineFieldsKept ==
  (pc = "stock_data" /\ Truthy(data)) =>
    /\ data.d["symbol"] = Str(Strip(Upper(args.symbol.s)))
    /\ data.d["volume"] = LastVolume
    /\ HeadlineKeys \subseteq DOMAIN data.d
    /\ DOMAIN data.d \subseteq HeadlineKeys \cup AllFieldKeys

====
